---- MODULE Spec2Model ----
(***************************************************************************)
(* insomnia: WAVE header parsing (WaveMetaReader), label generation        *)
(* (FileAnnotator), the batch driver of the annotate command, the record   *)
(* command with its device check, and convert_audio_file.                  *)
(*                                                                         *)
(* Number representations used throughout:                                 *)
(*   - u16/u32 header fields are naturals below 2^31;                      *)
(*   - u64 values are held in their two's-complement (i64) view, so that   *)
(*     the 64-bit width is kept inside TLC's integers: 2^64 - k is -k;     *)
(*   - an f64 quotient of two u32 values is the pair [num, den]; den = 0   *)
(*     gives the IEEE results inf (num > 0) and NaN (num = 0);             *)
(*   - an f32 value is [hi, lo], standing for hi * 2^64 + lo.              *)
(***************************************************************************)
EXTENDS Integers, Sequences, FiniteSets, TLC

VARIABLES
    big_endian,          \* build: byte order of the compilation target
    overflow_checks,     \* build: integer overflow panics (debug) or wraps (release)
    p_file,              \* parser run: the file handed to WaveMetaReader::from_file
    p_result,            \* parser run: what from_file returned ("none" before the call)
    dir,                 \* annotate: the input folder, a set of [path, content]
    opt_add_sub_markers, \* annotate: options.add_sub_markers
    opt_range,           \* annotate: options.range
    pc,                  \* annotate: where run_command_annotate stands
    ordered_file_list,   \* annotate: the sorted paths
    file_idx,            \* annotate: position of the outer for loop in the list
    file_start_time,     \* annotate: the running start offset (u64)
    file_annotator,      \* annotate: the FileAnnotator of the current file
    remaining,           \* annotate: what take(max_labels) may still yield
    label_file,          \* annotate: the lines appended to the output file
    labels,              \* history: the AnnotationLabel values pulled so far, each
                         \* with the position of its file in the list
    arecord,             \* record: the recording tool: whether it can be run, and
                         \* the (card, device) pairs of the lines of `arecord -l`
    config_input,        \* record: config.input, the configured devices
    opt_duration,        \* record: options.duration, minutes per file
    rec_pc,              \* record: where run_command_record stands
    available_audio_devices, \* record: what get_available_cards returned
    round,               \* record: the turn of the endless loop
    threads,             \* record: the recording threads spawned so far
    handles,             \* record: the JoinHandles collected and not yet joined
    failed_round,        \* history: the first round a recording failed in (0: none)
    wav_files,           \* convert: the prefixes whose .wav file exists
    mp3_files,           \* convert: the prefixes whose .mp3 file exists
    conv_pc,             \* convert: where the current convert_audio_file stands
    conv_prefix,         \* convert: its file_prefix
    convert_status,      \* convert: what .status() of the converter gave
    rm_processes,        \* convert: the spawned rm processes still to run
    converted,           \* history: the prefixes whose conversion exited with success
    conversions          \* convert: the calls of convert_audio_file so far

build_vars == <<big_endian, overflow_checks>>
parse_vars == <<p_file, p_result>>
option_vars == <<dir, opt_add_sub_markers, opt_range>>
annotate_vars ==
    <<pc, ordered_file_list, file_idx, file_start_time, file_annotator, remaining,
      label_file, labels>>
record_vars ==
    <<arecord, config_input, opt_duration, rec_pc, available_audio_devices, round,
      threads, handles, failed_round>>
convert_vars ==
    <<wav_files, mp3_files, conv_pc, conv_prefix, convert_status, rm_processes,
      converted, conversions>>
tool_vars == <<record_vars, convert_vars>>
vars == <<build_vars, parse_vars, option_vars, annotate_vars, tool_vars>>

\* no record command is running
RecordIdle ==
    /\ arecord = [available |-> FALSE, lists |-> FALSE, listing |-> <<>>]
    /\ config_input = <<>>
    /\ opt_duration = 1
    /\ rec_pc = "idle"
    /\ available_audio_devices = [tag |-> "none", map |-> <<>>]
    /\ round = 0
    /\ threads = {}
    /\ handles = <<>>
    /\ failed_round = 0

\* no conversion is running
ConvertIdle ==
    /\ wav_files = {}
    /\ mp3_files = {}
    /\ conv_pc = "idle"
    /\ conv_prefix = 0
    /\ convert_status = "none"
    /\ rm_processes = {}
    /\ converted = {}
    /\ conversions = 0

(***************************************************************************)
(* Bytes                                                                   *)
(***************************************************************************)
RIFF_TAG == <<82, 73, 70, 70>>
WAVE_TAG == <<87, 65, 86, 69>>
FMT_TAG == <<102, 109, 116, 32>>
DATA_TAG == <<100, 97, 116, 97>>

\* [0; n]: a zero-initialised buffer
ZeroBuffer(n) == [i \in 1..n |-> 0]

\* file_handle.read(&mut buf) at offset pos of a regular file: copies what is
\* left of the file, at most Len(buf) bytes, and leaves the rest of buf alone.
ReadCount(bytes, pos, n) == IF pos + n <= Len(bytes) THEN n ELSE Len(bytes) - pos

ReadInto(bytes, pos, n) ==
    [i \in 1..n |-> IF i <= ReadCount(bytes, pos, n) THEN bytes[pos + i]
                    ELSE ZeroBuffer(n)[i]]

RECURSIVE LittleEndianValue(_)
LittleEndianValue(b) ==
    IF Len(b) = 0 THEN 0 ELSE b[1] + 256 * LittleEndianValue(Tail(b))

RECURSIVE BigEndianValue(_)
BigEndianValue(b) ==
    IF Len(b) = 0 THEN 0
    ELSE BigEndianValue(SubSeq(b, 1, Len(b) - 1)) * 256 + b[Len(b)]

\* mem::transmute of a byte array to u16/u32: the target's native byte order
Transmute(b, big) == IF big THEN BigEndianValue(b) ELSE LittleEndianValue(b)

(***************************************************************************)
(* WaveMetaReader::from_file                                               *)
(***************************************************************************)
NoMeta ==
    [data_block_size_in_byte |-> 0, bits_per_sample |-> 0, channels |-> 0,
     samples_per_second |-> 0, number_of_samples |-> 0,
     duration |-> [num |-> 0, den |-> 1]]

DropFile_Forgets(handle) == handle

\* file_handle is a local of from_file: leaving the function, by a return or by
\* unwinding, drops it, and dropping a File closes it.  A handle is "none"
\* (never opened), "open" or "closed".
DropFile(handle) == IF handle = "open" THEN "closed" ELSE handle

\* Err(ReadError::Io(e)) of File::open: no handle exists and nothing was read
IoError ==
    [tag |-> "Err", kind |-> "Io", reads |-> <<>>, meta |-> NoMeta,
     handle |-> DropFile("none")]

\* Err(ReadError::Format(kind)) after the reads done so far
FormatError(kind, reads) ==
    [tag |-> "Err", kind |-> kind, reads |-> reads, meta |-> NoMeta,
     handle |-> DropFile("open")]

\* a panic ("attempt to divide by zero") unwinding out of from_file
Panicked(reads) ==
    [tag |-> "Panic", kind |-> "DivideByZero", reads |-> reads, meta |-> NoMeta,
     handle |-> DropFile("open")]

IsRiff_FirstThreeBytes(buf) == SubSeq(buf, 1, 3) = SubSeq(RIFF_TAG, 1, 3)
IsWave_ComparesRiff(buf) == buf = RIFF_TAG
IsData_Unchecked(buf) == TRUE

\* the four tag comparisons
IsRiff(buf) == buf = RIFF_TAG
IsWave(buf) == buf = WAVE_TAG
IsFmt(buf) == buf = FMT_TAG
IsData(buf) == buf = DATA_TAG

\* one read of the parse: what was asked for and what the file gave
ReadRecord(bytes, pos, n) == [want |-> n, got |-> ReadCount(bytes, pos, n)]

\* lines 129-143: the sample count, the duration and the Ok value
Compute(reads, channels, samples_per_second, bits_per_sample, data_block_size_in_byte) ==
    IF bits_per_sample \div 8 = 0 \/ channels = 0
    THEN Panicked(reads)
    ELSE LET number_of_samples ==
                 (data_block_size_in_byte \div (bits_per_sample \div 8)) \div channels
         IN [tag |-> "Ok", kind |-> "None", reads |-> reads,
             meta |-> [data_block_size_in_byte |-> data_block_size_in_byte,
                       bits_per_sample |-> bits_per_sample,
                       channels |-> channels,
                       samples_per_second |-> samples_per_second,
                       number_of_samples |-> number_of_samples,
                       duration |-> [num |-> number_of_samples,
                                     den |-> samples_per_second]],
             handle |-> DropFile("open")]

\* lines 90-127: the numeric fields and the data tag
ParseFormatChunk(b, p4, r4, big) ==
    LET p5 == p4 + ReadCount(b, p4, 6)
        r5 == Append(r4, ReadRecord(b, p4, 6))
        channels == Transmute(ReadInto(b, p5, 2), big)
        p6 == p5 + ReadCount(b, p5, 2)
        r6 == Append(r5, ReadRecord(b, p5, 2))
        samples_per_second == Transmute(ReadInto(b, p6, 4), big)
        p7 == p6 + ReadCount(b, p6, 4)
        r7 == Append(r6, ReadRecord(b, p6, 4))
        p8 == p7 + ReadCount(b, p7, 6)
        r8 == Append(r7, ReadRecord(b, p7, 6))
        bits_per_sample == Transmute(ReadInto(b, p8, 2), big)
        p9 == p8 + ReadCount(b, p8, 2)
        r9 == Append(r8, ReadRecord(b, p8, 2))
        data_header == ReadInto(b, p9, 4)
        p10 == p9 + ReadCount(b, p9, 4)
        r10 == Append(r9, ReadRecord(b, p9, 4))
    IN  IF ~IsData(data_header)
        THEN FormatError("NoDataChunk", r10)
        ELSE LET data_block_size_in_byte == Transmute(ReadInto(b, p10, 4), big)
                 r11 == Append(r10, ReadRecord(b, p10, 4))
             IN  Compute(r11, channels, samples_per_second, bits_per_sample,
                         data_block_size_in_byte)

\* lines 72-88: the WAVE and 'fmt ' tags
ParseWaveChunk(b, p2, r2, big) ==
    LET wave_header == ReadInto(b, p2, 4)
        p3 == p2 + ReadCount(b, p2, 4)
        r3 == Append(r2, ReadRecord(b, p2, 4))
    IN  IF ~IsWave(wave_header)
        THEN FormatError("NotAWaveFile", r3)
        ELSE LET fmt_header == ReadInto(b, p3, 4)
                 p4 == p3 + ReadCount(b, p3, 4)
                 r4 == Append(r3, ReadRecord(b, p3, 4))
             IN  IF ~IsFmt(fmt_header)
                 THEN FormatError("NoFormatChunk", r4)
                 ELSE ParseFormatChunk(b, p4, r4, big)

\* a size field that has to be the length of the file less the 8 bytes before it
ReadFileSize_Validated(b, p1, r1, big) ==
    IF LittleEndianValue(ReadInto(b, p1, 4)) + 8 # Len(b)
    THEN FormatError("NotARiffFile", Append(r1, ReadRecord(b, p1, 4)))
    ELSE ParseWaveChunk(b, p1 + ReadCount(b, p1, 4), Append(r1, ReadRecord(b, p1, 4)),
                        big)

\* lines 68-70: the size field is read into a buffer that nothing looks at
ReadFileSize(b, p1, r1, big) ==
    ParseWaveChunk(b, p1 + ReadCount(b, p1, 4), Append(r1, ReadRecord(b, p1, 4)), big)

\* lines 52-66: open, then the RIFF tag
from_file(file, big) ==
    IF ~file.exists
    THEN IoError
    ELSE LET b == file.bytes
             riff_header == ReadInto(b, 0, 4)
             p1 == ReadCount(b, 0, 4)
             r1 == <<ReadRecord(b, 0, 4)>>
         IN  IF ~IsRiff(riff_header)
             THEN FormatError("NotARiffFile", r1)
             ELSE ReadFileSize(b, p1, r1, big)

(***************************************************************************)
(* Input files of the parser run                                           *)
(***************************************************************************)
LittleEndian16(v) == <<v % 256, v \div 256>>
LittleEndian32(v) ==
    <<v % 256, (v \div 256) % 256, (v \div 65536) % 256, v \div 16777216>>

\* a canonical 44-byte PCM header as the recording tool writes it
WavHeader(riff, size, wave, fmt, channels, rate, bits, data, data_len) ==
    riff \o LittleEndian32(size) \o wave \o fmt
         \o LittleEndian32(16) \o LittleEndian16(1)
         \o LittleEndian16(channels) \o LittleEndian32(rate)
         \o LittleEndian32(rate * channels * (bits \div 8))
         \o LittleEndian16(channels * (bits \div 8))
         \o LittleEndian16(bits) \o data \o LittleEndian32(data_len)

\* a tag with its last byte overwritten
Corrupted(tag) == [tag EXCEPT ![4] = 33]

MaxChannels == 2
ChannelChoices == 0..MaxChannels
BitsChoices == {0, 4, 8, 16}
RateChoices == {0, 1, 44100}
DataLenChoices == {0, 10, 176400}

FullHeaders ==
    { WavHeader(riff, 36 + data_len, wave, fmt, channels, rate, bits, data, data_len) :
        riff \in {RIFF_TAG, Corrupted(RIFF_TAG)},
        wave \in {WAVE_TAG, Corrupted(WAVE_TAG)},
        fmt \in {FMT_TAG, Corrupted(FMT_TAG)},
        data \in {DATA_TAG, Corrupted(DATA_TAG)},
        channels \in ChannelChoices, rate \in RateChoices,
        bits \in BitsChoices, data_len \in DataLenChoices }

\* every header, whole or cut off after any number of bytes
ParserFiles ==
    { [exists |-> TRUE, bytes |-> SubSeq(h, 1, n)] : h \in FullHeaders, n \in 0..44 }
    \cup { [exists |-> FALSE, bytes |-> <<>>] }

(***************************************************************************)
(* The result slot of a parser run                                         *)
(***************************************************************************)
NotCalled ==
    [tag |-> "none", kind |-> "None", reads |-> <<>>, meta |-> NoMeta,
     handle |-> "none"]

(***************************************************************************)
(* Numbers: the casts and the f32 arithmetic of FileAnnotator              *)
(***************************************************************************)
\* u64::MAX in the two's-complement view
U64_MAX == -1

\* `x as u64` of an f64 quotient of two u32 values: truncation toward zero,
\* saturating for inf, 0 for NaN.  For den > 0 the f64 quotient of two values
\* below 2^32 truncates to the integer quotient.
F64AsU64(x) ==
    IF x.den > 0 THEN x.num \div x.den
    ELSE IF x.num > 0 THEN U64_MAX ELSE 0

F64DividedBy6AsU64_NotDivided(x) == F64AsU64(x)

\* `(x / 6.0) as u64`; floor(floor(n/d)/6) = floor(n/(6d))
F64DividedBy6AsU64(x) ==
    IF x.den > 0 THEN (x.num \div x.den) \div 6
    ELSE IF x.num > 0 THEN U64_MAX ELSE 0

\* a + b on u64 wraps modulo 2^64 (the i64 view adds the same bits); it
\* carries out of 64 bits when an operand at the top of the range is involved
\* and the sum comes back to the bottom.
U64AddCarries(a, b) ==
    \/ (a < 0 /\ b < 0)
    \/ (a < 0 /\ b >= 0 /\ a + b >= 0)
    \/ (a >= 0 /\ b < 0 /\ a + b >= 0)

U64WrappingAdd(a, b) == a + b

\* the spacing of f32 values around the natural number n (24-bit significand)
RECURSIVE F32Spacing(_)
F32Spacing(n) == IF n < 16777216 THEN 1 ELSE 2 * F32Spacing(n \div 2)

\* the f32 nearest to the natural number n, ties to even
F32Round(n) ==
    LET s == F32Spacing(n)
        q == n \div s
        r == n % s
    IN  IF 2 * r < s THEN q * s
        ELSE IF 2 * r > s THEN (q + 1) * s
        ELSE IF q % 2 = 0 THEN q * s ELSE (q + 1) * s

\* `v as f32` of a u64: values at the top of the u64 range round to 2^64
U64AsF32(v) ==
    IF v < 0 THEN [hi |-> 1, lo |-> 0] ELSE [hi |-> 0, lo |-> F32Round(v)]

\* x + y on f32: next to a multiple of 2^64 a summand below 2^31 is absorbed
F32Add(x, y) ==
    IF x.hi + y.hi > 0 THEN [hi |-> x.hi + y.hi, lo |-> 0]
    ELSE [hi |-> 0, lo |-> F32Round(x.lo + y.lo)]

F32Zero == [hi |-> 0, lo |-> 0]

(***************************************************************************)
(* Text and calendar time (chrono::NaiveDateTime)                          *)
(* A string is the sequence of its ASCII codes; a NaiveDateTime is         *)
(* [days, secs]: days since 1970-01-01 and the second of that day.         *)
(***************************************************************************)
Digit(n) == 48 + n
Pad2(n) == <<Digit((n \div 10) % 10), Digit(n % 10)>>
Pad4(n) == <<Digit((n \div 1000) % 10), Digit((n \div 100) % 10),
             Digit((n \div 10) % 10), Digit(n % 10)>>

RECURSIVE Decimal(_)
Decimal(n) == IF n < 10 THEN <<Digit(n)>> ELSE Append(Decimal(n \div 10), Digit(n % 10))

DaysFromCivil(y, m, d) ==
    LET yy == IF m <= 2 THEN y - 1 ELSE y
        era == yy \div 400
        yoe == yy - era * 400
        mp == IF m > 2 THEN m - 3 ELSE m + 9
        doy == (153 * mp + 2) \div 5 + d - 1
        doe == yoe * 365 + yoe \div 4 - yoe \div 100 + doy
    IN  era * 146097 + doe - 719468

CivilFromDays(days) ==
    LET z == days + 719468
        era == z \div 146097
        doe == z - era * 146097
        yoe == (doe - doe \div 1460 + doe \div 36524 - doe \div 146096) \div 365
        doy == doe - (365 * yoe + yoe \div 4 - yoe \div 100)
        mp == (5 * doy + 2) \div 153
        d == doy - (153 * mp + 2) \div 5 + 1
        m == IF mp < 10 THEN mp + 3 ELSE mp - 9
        y == yoe + era * 400 + (IF m <= 2 THEN 1 ELSE 0)
    IN  [year |-> y, month |-> m, day |-> d]

\* NaiveDateTime + Duration::seconds(k), k of either sign
AddSeconds(t, k) ==
    [days |-> t.days + (t.secs + k) \div 86400, secs |-> (t.secs + k) % 86400]

\* format("%H:%M:%S")
FormatHMS(t) ==
    Pad2(t.secs \div 3600) \o <<58>> \o Pad2((t.secs \div 60) % 60) \o <<58>>
        \o Pad2(t.secs % 60)

\* format("%d.%m.%Y %H:%M:%S")
FormatDMYHMS(t) ==
    LET c == CivilFromDays(t.days)
    IN  Pad2(c.day) \o <<46>> \o Pad2(c.month) \o <<46>> \o Pad4(c.year) \o <<32>>
            \o FormatHMS(t)

(***************************************************************************)
(* FileAnnotator                                                           *)
(***************************************************************************)
\* the value of the range flag the 5-argument constructor receives
RangeModeOf(range) == range

NoAnnotator ==
    [some |-> FALSE,
     file_duration_in_seconds |-> 0, slice_duration_in_seconds |-> 0,
     file_start_time_in_seconds |-> 0, file_base_time |-> [days |-> 0, secs |-> 0],
     max_annotations |-> 0, next_annotation_idx |-> 0,
     last_start_time |-> F32Zero, is_range |-> FALSE]

MetaReaderIsOk_UnlessFormatError(parsed) == parsed.tag = "Ok" \/ parsed.kind = "Io"

\* maybe_meta_reader.is_ok()
MetaReaderIsOk(parsed) == parsed.tag = "Ok"

\* FileAnnotator::from, given what WaveMetaReader::from_file returned (an Ok
\* or an Err; a panic of from_file never comes back to from)
FileAnnotatorFrom(parsed, file_start_date, start_time, add_sub_markers, range) ==
    IF ~MetaReaderIsOk(parsed)
    THEN NoAnnotator
    ELSE [some |-> TRUE,
          file_duration_in_seconds |-> F64AsU64(parsed.meta.duration),
          slice_duration_in_seconds |->
              IF add_sub_markers THEN F64DividedBy6AsU64(parsed.meta.duration)
              ELSE F64AsU64(parsed.meta.duration),
          file_start_time_in_seconds |-> start_time,
          last_start_time |-> U64AsF32(start_time),
          max_annotations |-> IF add_sub_markers THEN 6 ELSE 1,
          is_range |-> RangeModeOf(range),
          file_base_time |-> file_start_date,
          next_annotation_idx |-> 0]

\* get_end_time: the u64 sum; `carries` says that it left the u64 range
get_end_time(fa) ==
    [value |-> U64WrappingAdd(fa.file_start_time_in_seconds, fa.file_duration_in_seconds),
     carries |-> U64AddCarries(fa.file_start_time_in_seconds, fa.file_duration_in_seconds)]

get_max_labels(fa) == fa.max_annotations

NoLabel == [some |-> FALSE, start_marker |-> F32Zero, end_marker |-> F32Zero,
            used_label |-> <<>>]

Exhausted_OffByOne(fa) == fa.next_annotation_idx > fa.max_annotations

\* the guard of Iterator::next: no label is left
Exhausted(fa) == fa.next_annotation_idx >= fa.max_annotations

NextIndex_SkipsOne(fa) == fa.next_annotation_idx + 2

\* self.next_annotation_idx += 1
NextIndex(fa) == fa.next_annotation_idx + 1

\* a None that also starts the sequence over
ExhaustedResult_Rewinds(fa) ==
    [fa |-> [fa EXCEPT !.next_annotation_idx = 0], item |-> NoLabel]

\* `return None` of the guard: no assignment to self comes before it
ExhaustedResult(fa) == [fa |-> fa, item |-> NoLabel]

\* a step that moves the start offset of the file along with the clock
Advanced_MovesFileStart(fa, idx, clock) ==
    [fa EXCEPT !.next_annotation_idx = idx, !.last_start_time = clock,
               !.file_start_time_in_seconds = @ + fa.slice_duration_in_seconds]

\* the two assignments to self of Iterator::next
Advanced(fa, idx, clock) ==
    [fa EXCEPT !.next_annotation_idx = idx, !.last_start_time = clock]

\* Iterator::next: [fa |-> the annotator after the call, item |-> the label or None]
AnnotatorNext(fa) ==
    IF Exhausted(fa)
    THEN ExhaustedResult(fa)
    ELSE LET idx == NextIndex(fa)
             old_last_start_time == fa.last_start_time
             end_marker_offset ==
                 IF fa.is_range THEN U64AsF32(fa.slice_duration_in_seconds)
                 ELSE F32Zero
             last_start_time == F32Add(fa.last_start_time, end_marker_offset)
             new_end_time_for_slice ==
                 AddSeconds(fa.file_base_time, fa.slice_duration_in_seconds * idx)
             actual_slice_start_time ==
                 IF fa.max_annotations > 1
                 THEN AddSeconds(fa.file_base_time,
                                 fa.slice_duration_in_seconds * (idx - 1))
                 ELSE fa.file_base_time
             used_label ==
                 IF fa.is_range
                 THEN FormatHMS(actual_slice_start_time) \o <<32, 45, 32>>
                          \o FormatHMS(new_end_time_for_slice)
                 ELSE FormatDMYHMS(actual_slice_start_time)
         IN  [fa |-> Advanced(fa, idx, last_start_time),
              item |-> [some |-> TRUE, start_marker |-> old_last_start_time,
                        end_marker |-> last_start_time, used_label |-> used_label]]

\* Iterator::take(n).next(): stops after n items without asking the annotator
TakeNext(fa, n) ==
    IF n = 0
    THEN [fa |-> fa, item |-> NoLabel, remaining |-> 0]
    ELSE LET r == AnnotatorNext(fa)
         IN  [fa |-> r.fa, item |-> r.item, remaining |-> n - 1]

\* the labels of `for label in fa` (next until None) ...
RECURSIVE Drain(_)
Drain(fa) ==
    LET r == AnnotatorNext(fa)
    IN  IF r.item.some THEN <<r.item>> \o Drain(r.fa) ELSE <<>>

\* ... and of `for label in fa.take(n)`
RECURSIVE DrainTake(_, _)
DrainTake(fa, n) ==
    LET r == TakeNext(fa, n)
    IN  IF r.item.some THEN <<r.item>> \o DrainTake(r.fa, r.remaining) ELSE <<>>

\* {:.02} of an f32 holding a whole number; 2^64 = 18446744073709551616
RECURSIVE TimesSmall(_, _, _)
TimesSmall(digits, k, carry) ==
    IF Len(digits) = 0
    THEN (IF carry = 0 THEN <<>> ELSE Decimal(carry))
    ELSE LET v == (digits[Len(digits)] - 48) * k + carry
         IN  Append(TimesSmall(SubSeq(digits, 1, Len(digits) - 1), k, v \div 10),
                    Digit(v % 10))

TwoTo64Digits ==
    <<49, 56, 52, 52, 54, 55, 52, 52, 48, 55, 51, 55, 48, 57, 53, 53, 49, 54, 49, 54>>

FormatF32(x) ==
    (IF x.hi > 0 THEN TimesSmall(TwoTo64Digits, x.hi, 0) ELSE Decimal(x.lo))
        \o <<46, 48, 48>>

\* get_label_line with the two offsets in the wrong order
get_label_line_EndFirst(label) ==
    FormatF32(label.end_marker) \o <<9>> \o FormatF32(label.start_marker) \o <<9>>
        \o label.used_label \o <<10>>

\* AnnotationLabel::get_label_line
get_label_line(label) ==
    FormatF32(label.start_marker) \o <<9>> \o FormatF32(label.end_marker) \o <<9>>
        \o label.used_label \o <<10>>

(***************************************************************************)
(* Paths, the file name pattern and the timestamp of a file name           *)
(***************************************************************************)
RECURSIVE PathLess(_, _)
\* a < b on Strings: byte-wise lexicographic order
PathLess(a, b) ==
    IF Len(b) = 0 THEN FALSE
    ELSE IF Len(a) = 0 THEN TRUE
    ELSE IF a[1] # b[1] THEN a[1] < b[1]
    ELSE PathLess(Tail(a), Tail(b))

RECURSIVE InsertSorted(_, _)
InsertSorted(sorted, p) ==
    IF Len(sorted) = 0 THEN <<p>>
    ELSE IF PathLess(p, sorted[1]) THEN <<p>> \o sorted
    ELSE <<sorted[1]>> \o InsertSorted(Tail(sorted), p)

RECURSIVE SortPaths(_)
\* ordered_file_list.sort_by(|a, b| a.partial_cmp(b).unwrap())
SortPaths(list) ==
    IF Len(list) = 0 THEN <<>>
    ELSE InsertSorted(SortPaths(Tail(list)), list[1])

IsDigit(c) == c \in 48..57
DOT_WAV == <<46, 119, 97, 118>>

\* CORRECT_FILE_NAME_REGEX with its six groups starting at position i:
\* fourteen digits, an underscore, and ".wav" somewhere behind it (paths hold
\* no line break, which `.` would not match)
MatchesAt(path, i) ==
    /\ i + 14 <= Len(path)
    /\ \A k \in 0..13 : IsDigit(path[i + k])
    /\ path[i + 14] = 95
    /\ \E j \in (i + 15)..(Len(path) - 3) : SubSeq(path, j, j + 3) = DOT_WAV

\* CORRECT_FILE_NAME_REGEX.is_match: an unanchored search
is_match(path) == \E i \in 1..Len(path) : MatchesAt(path, i)

\* where the groups of the (single) match start: the leading .* is greedy
CaptureStart(path) ==
    CHOOSE i \in 1..Len(path) :
        MatchesAt(path, i) /\ \A j \in (i + 1)..Len(path) : ~MatchesAt(path, j)

NumberAt(path, i, n) ==
    LET RECURSIVE Value(_)
        Value(k) == IF k = 0 THEN 0 ELSE Value(k - 1) * 10 + (path[i + k - 1] - 48)
    IN  Value(n)

\* cap[1] .. cap[6]
Captures(path) ==
    LET i == CaptureStart(path)
    IN  [year |-> NumberAt(path, i, 4), month |-> NumberAt(path, i + 4, 2),
         day |-> NumberAt(path, i + 6, 2), hour |-> NumberAt(path, i + 8, 2),
         minute |-> NumberAt(path, i + 10, 2), second |-> NumberAt(path, i + 12, 2)]

DaysInMonth(y, m) ==
    IF m \in {4, 6, 9, 11} THEN 30
    ELSE IF m # 2 THEN 31
    ELSE IF (y % 4 = 0 /\ y % 100 # 0) \/ y % 400 = 0 THEN 29 ELSE 28

\* whether Utc.datetime_from_str(.., "%d.%m.%Y %H:%M:%S") is Ok for the groups
TimestampParses(c) ==
    /\ c.month \in 1..12
    /\ c.day \in 1..DaysInMonth(c.year, c.month)
    /\ c.hour <= 23 /\ c.minute <= 59 /\ c.second <= 59

\* .unwrap().naive_utc()
ParsedTimestamp(c) ==
    [days |-> DaysFromCivil(c.year, c.month, c.day),
     secs |-> c.hour * 3600 + c.minute * 60 + c.second]

(***************************************************************************)
(* The input folder of an annotate run                                     *)
(***************************************************************************)
StampedName(y, mo, d, h, mi, sec, c) ==
    Pad4(y) \o Pad2(mo) \o Pad2(d) \o Pad2(h) \o Pad2(mi) \o Pad2(sec)
        \o <<95, c>> \o DOT_WAV

\* names whose timestamp parses
ValidNames ==
    { StampedName(2021, 1, 1, 0, 0, 0, 97),
      StampedName(2021, 1, 1, 23, 59, 50, 98),
      StampedName(2021, 1, 2, 0, 0, 10, 99) }

\* a name that matches the pattern and holds no date, and one that does not match
OtherNames ==
    { StampedName(2021, 13, 1, 0, 0, 0, 100),
      <<110, 111, 116, 101, 115, 46, 116, 120, 116>> }

PlainHeader(data_len) ==
    WavHeader(RIFF_TAG, 36 + data_len, WAVE_TAG, FMT_TAG, 1, 1, 8, DATA_TAG, data_len)

\* what a directory entry may hold
FileOf(content) ==
    CASE content = "d0" -> [exists |-> TRUE, bytes |-> PlainHeader(0)]
      [] content = "d10" -> [exists |-> TRUE, bytes |-> PlainHeader(10)]
      [] content = "d20" -> [exists |-> TRUE, bytes |-> PlainHeader(20)]
      [] content = "not_riff" ->
            [exists |-> TRUE,
             bytes |-> WavHeader(Corrupted(RIFF_TAG), 46, WAVE_TAG, FMT_TAG, 1, 1, 8,
                                 DATA_TAG, 10)]
      [] content = "no_channels" ->
            [exists |-> TRUE,
             bytes |-> WavHeader(RIFF_TAG, 46, WAVE_TAG, FMT_TAG, 0, 1, 8, DATA_TAG, 10)]
      [] content = "no_rate" ->
            [exists |-> TRUE,
             bytes |-> WavHeader(RIFF_TAG, 46, WAVE_TAG, FMT_TAG, 1, 0, 8, DATA_TAG, 10)]
      [] content = "d5" -> [exists |-> TRUE, bytes |-> PlainHeader(5)]
      [] content = "d3600" -> [exists |-> TRUE, bytes |-> PlainHeader(3600)]
      [] content = "one_second" ->
            [exists |-> TRUE,
             bytes |-> WavHeader(RIFF_TAG, 176436, WAVE_TAG, FMT_TAG, 2, 44100, 16,
                                 DATA_TAG, 176400)]
      [] content = "not_wave" ->
            [exists |-> TRUE,
             bytes |-> WavHeader(RIFF_TAG, 46, Corrupted(WAVE_TAG), FMT_TAG, 1, 1, 8,
                                 DATA_TAG, 10)]
      [] content = "no_fmt" ->
            [exists |-> TRUE,
             bytes |-> WavHeader(RIFF_TAG, 46, WAVE_TAG, Corrupted(FMT_TAG), 1, 1, 8,
                                 DATA_TAG, 10)]
      [] content = "no_data" ->
            [exists |-> TRUE,
             bytes |-> WavHeader(RIFF_TAG, 46, WAVE_TAG, FMT_TAG, 1, 1, 8,
                                 Corrupted(DATA_TAG), 10)]
      [] content = "no_rate_no_data" ->
            [exists |-> TRUE,
             bytes |-> WavHeader(RIFF_TAG, 36, WAVE_TAG, FMT_TAG, 1, 0, 8, DATA_TAG, 0)]
      [] OTHER -> [exists |-> FALSE, bytes |-> <<>>]

DirContents == {"d0", "d10", "d20", "not_riff", "no_channels", "no_rate", "unopenable"}

MaxFiles == 3

Directories ==
    UNION { { { [path |-> n, content |-> IF n \in ValidNames THEN c[n] ELSE "d10"] :
                    n \in S } :
              c \in [S \cap ValidNames -> DirContents] } :
            S \in { T \in SUBSET (ValidNames \cup OtherNames) :
                        Cardinality(T) <= MaxFiles } }

(***************************************************************************)
(* run_command_annotate                                                    *)
(***************************************************************************)
ContentOf(path) == (CHOOSE e \in dir : e.path = path).content

\* the orders in which read_dir may hand out the entries
Listings ==
    LET paths == { e.path : e \in dir }
        n == Cardinality(paths)
    IN  { l \in [1..n -> paths] : \A i, j \in 1..n : i # j => l[i] # l[j] }

AtFile == pc = "loop" /\ file_idx <= Len(ordered_file_list)
CurrentPath == ordered_file_list[file_idx]
CurrentParse == from_file(FileOf(ContentOf(CurrentPath)), big_endian)
CurrentAnnotator ==
    FileAnnotatorFrom(CurrentParse, ParsedTimestamp(Captures(CurrentPath)),
                      file_start_time, opt_add_sub_markers, opt_range)

\* lines 52-65: the output file cannot be opened
OpenOutputFails ==
    /\ pc = "start"
    /\ pc' = "done"
    /\ UNCHANGED <<tool_vars, build_vars, parse_vars, option_vars, ordered_file_list, file_idx,
                   file_start_time, file_annotator, remaining, label_file,
                   labels>>

\* line 69: read_dir(..).unwrap() on a folder that cannot be read
ReadDirPanics ==
    /\ pc = "start"
    /\ pc' = "panicked"
    /\ UNCHANGED <<tool_vars, build_vars, parse_vars, option_vars, ordered_file_list, file_idx,
                   file_start_time, file_annotator, remaining, label_file,
                   labels>>

\* lines 67-76: list the folder, sort the paths, start at offset 0
ListAndSort ==
    /\ pc = "start"
    /\ \E listing \in Listings : ordered_file_list' = SortPaths(listing)
    /\ file_start_time' = 0
    /\ file_idx' = 1
    /\ pc' = "loop"
    /\ UNCHANGED <<tool_vars, build_vars, parse_vars, option_vars, file_annotator, remaining,
                   label_file, labels>>

\* lines 81-87: the name does not match the pattern
SkipFile ==
    /\ AtFile
    /\ ~is_match(CurrentPath)
    /\ file_idx' = file_idx + 1
    /\ UNCHANGED <<tool_vars, build_vars, parse_vars, option_vars, pc, ordered_file_list,
                   file_start_time, file_annotator, remaining, label_file,
                   labels>>

\* lines 96-99: the digits of the name are no date: unwrap panics
TimestampPanics ==
    /\ AtFile
    /\ is_match(CurrentPath)
    /\ ~TimestampParses(Captures(CurrentPath))
    /\ pc' = "panicked"
    /\ UNCHANGED <<tool_vars, build_vars, parse_vars, option_vars, ordered_file_list, file_idx,
                   file_start_time, file_annotator, remaining, label_file,
                   labels>>

\* lines 101-107: the division by zero inside from_file unwinds through the loop
ParsePanics ==
    /\ AtFile
    /\ is_match(CurrentPath)
    /\ TimestampParses(Captures(CurrentPath))
    /\ CurrentParse.tag = "Panic"
    /\ pc' = "panicked"
    /\ UNCHANGED <<tool_vars, build_vars, parse_vars, option_vars, ordered_file_list, file_idx,
                   file_start_time, file_annotator, remaining, label_file,
                   labels>>

AnnotatorMissing_ResetsOffset ==
    /\ AtFile
    /\ is_match(CurrentPath)
    /\ TimestampParses(Captures(CurrentPath))
    /\ CurrentParse.tag = "Err"
    /\ ~CurrentAnnotator.some
    /\ file_idx' = file_idx + 1
    /\ file_start_time' = 0
    /\ UNCHANGED <<tool_vars, build_vars, parse_vars, option_vars, pc, ordered_file_list,
                   file_annotator, remaining, label_file, labels>>

\* lines 108-111: no annotator for the file; on to the next one
AnnotatorMissing ==
    /\ AtFile
    /\ is_match(CurrentPath)
    /\ TimestampParses(Captures(CurrentPath))
    /\ CurrentParse.tag = "Err"
    /\ ~CurrentAnnotator.some
    /\ file_idx' = file_idx + 1
    /\ UNCHANGED <<tool_vars, build_vars, parse_vars, option_vars, pc, ordered_file_list,
                   file_start_time, file_annotator, remaining, label_file,
                   labels>>

\* lines 112-116: the annotator, its label count and its end time, which becomes
\* the running start offset; an addition that leaves u64 panics or wraps
StartFile ==
    /\ AtFile
    /\ is_match(CurrentPath)
    /\ TimestampParses(Captures(CurrentPath))
    /\ CurrentParse.tag = "Ok"
    /\ CurrentAnnotator.some
    /\ file_annotator' = CurrentAnnotator
    /\ remaining' = get_max_labels(CurrentAnnotator)
    /\ IF get_end_time(CurrentAnnotator).carries /\ overflow_checks
       THEN pc' = "panicked" /\ UNCHANGED file_start_time
       ELSE pc' = "labels" /\ file_start_time' = get_end_time(CurrentAnnotator).value
    /\ UNCHANGED <<tool_vars, build_vars, parse_vars, option_vars, ordered_file_list, file_idx,
                   label_file, labels>>

\* lines 119-121: one turn of the inner loop writes one label line
WriteLabel ==
    /\ pc = "labels"
    /\ TakeNext(file_annotator, remaining).item.some
    /\ file_annotator' = TakeNext(file_annotator, remaining).fa
    /\ remaining' = TakeNext(file_annotator, remaining).remaining
    /\ label_file' =
           Append(label_file, get_label_line(TakeNext(file_annotator, remaining).item))
    /\ labels' =
           Append(labels, [file |-> file_idx,
                           label |-> TakeNext(file_annotator, remaining).item])
    /\ UNCHANGED <<tool_vars, build_vars, parse_vars, option_vars, pc, ordered_file_list,
                   file_idx, file_start_time>>

\* lines 119-122: take() is exhausted; the annotator is dropped
FileDone ==
    /\ pc = "labels"
    /\ ~TakeNext(file_annotator, remaining).item.some
    /\ file_annotator' = NoAnnotator
    /\ remaining' = 0
    /\ file_idx' = file_idx + 1
    /\ pc' = "loop"
    /\ UNCHANGED <<tool_vars, build_vars, parse_vars, option_vars, ordered_file_list,
                   file_start_time, label_file, labels>>

\* line 123: the list is exhausted
LoopEnds ==
    /\ pc = "loop"
    /\ file_idx > Len(ordered_file_list)
    /\ pc' = "done"
    /\ UNCHANGED <<tool_vars, build_vars, parse_vars, option_vars, ordered_file_list, file_idx,
                   file_start_time, file_annotator, remaining, label_file,
                   labels>>

AnnotateIdle ==
    /\ pc = "start"
    /\ ordered_file_list = <<>>
    /\ file_idx = 1
    /\ file_start_time = 0
    /\ file_annotator = NoAnnotator
    /\ remaining = 0
    /\ label_file = <<>>
    /\ labels = <<>>

Init ==
    /\ big_endian \in BOOLEAN
    /\ overflow_checks \in BOOLEAN
    /\ p_file = [exists |-> FALSE, bytes |-> <<>>]
    /\ p_result = NotCalled
    /\ dir \in Directories
    /\ opt_add_sub_markers \in BOOLEAN
    /\ opt_range \in BOOLEAN
    /\ AnnotateIdle
    /\ RecordIdle
    /\ ConvertIdle

Next ==
    \/ OpenOutputFails
    \/ ReadDirPanics
    \/ ListAndSort
    \/ SkipFile
    \/ TimestampPanics
    \/ ParsePanics
    \/ AnnotatorMissing
    \/ StartFile
    \/ WriteLabel
    \/ FileDone
    \/ LoopEnds

Spec == Init /\ [][Next]_vars

(***************************************************************************)
(* The parser run: one call of from_file on one file                       *)
(***************************************************************************)
InitParse ==
    /\ big_endian \in BOOLEAN
    /\ overflow_checks = FALSE
    /\ p_file \in ParserFiles
    /\ p_result = NotCalled
    /\ dir = {}
    /\ opt_add_sub_markers = FALSE
    /\ opt_range = FALSE
    /\ AnnotateIdle
    /\ RecordIdle
    /\ ConvertIdle

ParseCall ==
    /\ p_result.tag = "none"
    /\ p_result' = from_file(p_file, big_endian)
    /\ UNCHANGED <<tool_vars, build_vars, p_file, option_vars, annotate_vars>>

NextParse == ParseCall

SpecParse == InitParse /\ [][NextParse]_vars

(***************************************************************************)
(* One FileAnnotator: FileAnnotator::from on one file, then Iterator::next *)
(* until it returns None (`for label in annotator`)                        *)
(***************************************************************************)
\* the files an annotator is built on: those of the folder and some more
AnnotatorContents ==
    DirContents \cup {"d5", "d3600", "one_second", "not_wave", "no_fmt", "no_data",
                      "no_rate_no_data"}

\* file_start_date: the timestamps the file names of the folder give
BaseTimes == { ParsedTimestamp(Captures(n)) : n \in ValidNames }

\* start_time: any u64; 16777217 is the first whole number f32 cannot hold
StartOffsets == {0, 10, 16777217}

InitAnnotator ==
    /\ big_endian \in BOOLEAN
    /\ overflow_checks = FALSE
    /\ p_file \in { FileOf(c) : c \in AnnotatorContents }
    /\ p_result = NotCalled
    /\ dir = {}
    /\ opt_add_sub_markers \in BOOLEAN
    /\ opt_range \in BOOLEAN
    /\ AnnotateIdle
    /\ RecordIdle
    /\ ConvertIdle

\* FileAnnotator::from returns Some or None
CreateAnnotator ==
    /\ pc = "start"
    /\ from_file(p_file, big_endian).tag # "Panic"
    /\ p_result' = from_file(p_file, big_endian)
    /\ \E file_start_date \in BaseTimes, start_time \in StartOffsets :
           file_annotator' =
               FileAnnotatorFrom(from_file(p_file, big_endian), file_start_date,
                                 start_time, opt_add_sub_markers, opt_range)
    /\ pc' = IF file_annotator'.some THEN "labels" ELSE "done"
    /\ UNCHANGED <<tool_vars, build_vars, p_file, option_vars, ordered_file_list, file_idx,
                   file_start_time, remaining, label_file, labels>>

\* the division by zero inside from_file unwinds through FileAnnotator::from
CreatePanics ==
    /\ pc = "start"
    /\ from_file(p_file, big_endian).tag = "Panic"
    /\ p_result' = from_file(p_file, big_endian)
    /\ pc' = "panicked"
    /\ UNCHANGED <<tool_vars, build_vars, p_file, option_vars, ordered_file_list, file_idx,
                   file_start_time, file_annotator, remaining, label_file, labels>>

\* Iterator::next returns Some(label)
NextLabel ==
    /\ pc = "labels"
    /\ AnnotatorNext(file_annotator).item.some
    /\ file_annotator' = AnnotatorNext(file_annotator).fa
    /\ labels' = Append(labels, [file |-> file_idx,
                                  label |-> AnnotatorNext(file_annotator).item])
    /\ UNCHANGED <<tool_vars, build_vars, parse_vars, option_vars, pc, ordered_file_list,
                   file_idx, file_start_time, remaining, label_file>>

\* Iterator::next returns None: the annotator is exhausted and the loop ends
NextNone ==
    /\ pc = "labels"
    /\ ~AnnotatorNext(file_annotator).item.some
    /\ file_annotator' = AnnotatorNext(file_annotator).fa
    /\ pc' = "done"
    /\ UNCHANGED <<tool_vars, build_vars, parse_vars, option_vars, ordered_file_list, file_idx,
                   file_start_time, remaining, label_file, labels>>

\* Iterator::next asked again after it has returned None
NextAfterNone ==
    /\ pc = "done"
    /\ file_annotator.some
    /\ file_annotator' = AnnotatorNext(file_annotator).fa
    /\ labels' = IF AnnotatorNext(file_annotator).item.some
                  THEN Append(labels, [file |-> file_idx,
                                       label |-> AnnotatorNext(file_annotator).item])
                  ELSE labels
    /\ UNCHANGED <<tool_vars, build_vars, parse_vars, option_vars, pc, ordered_file_list,
                   file_idx, file_start_time, remaining, label_file>>

NextAnnotator ==
    \/ CreateAnnotator
    \/ CreatePanics
    \/ NextLabel
    \/ NextNone
    \/ NextAfterNone

SpecAnnotator == InitAnnotator /\ [][NextAnnotator]_vars

(***************************************************************************)
(* Claims about FileAnnotator and run_command_annotate, checked under Spec *)
(***************************************************************************)
ExpectedLabels == IF opt_add_sub_markers THEN 6 ELSE 1

C2_IndexInRange ==
    file_annotator.some
        => /\ 0 <= file_annotator.next_annotation_idx
           /\ file_annotator.next_annotation_idx <= file_annotator.max_annotations
           /\ (AnnotatorNext(file_annotator).item.some
                 <=> file_annotator.next_annotation_idx # file_annotator.max_annotations)

C2_IndexStep ==
    (file_annotator.some /\ file_annotator'.some)
        => /\ file_annotator'.next_annotation_idx >= file_annotator.next_annotation_idx
           /\ IF Len(label_file') = Len(label_file) + 1
              THEN file_annotator'.next_annotation_idx
                     = file_annotator.next_annotation_idx + 1
              ELSE file_annotator'.next_annotation_idx
                     = file_annotator.next_annotation_idx

\* C2: the index of an annotator stays within 0..max_annotations, never
\* decreases, grows by exactly one with each label emitted and by nothing
\* otherwise, and a label is refused exactly when the index has reached
\* max_annotations.
C2_IndexMonotoneAndBounded == [](C2_IndexInRange) /\ [][C2_IndexStep]_vars

\* C2 witness: an annotator in the middle of its six labels
C2_Witness ==
    /\ pc = "labels"
    /\ file_annotator.max_annotations = 6
    /\ file_annotator.next_annotation_idx = 3
    /\ Len(label_file) >= 3

\* C3: get_end_time() is the start offset plus the whole seconds of the
\* file's duration, as a number (the sum does not leave u64), and it is what
\* the driver read before the first label was pulled.
C3_EndTimeIsStartPlusDuration ==
    file_annotator.some
        => /\ ~get_end_time(file_annotator).carries
           /\ get_end_time(file_annotator).value
                = file_annotator.file_start_time_in_seconds
                    + F64AsU64(CurrentParse.meta.duration)
           /\ (pc = "labels" => file_start_time = get_end_time(file_annotator).value)

\* whether entry k of the sorted list gets an annotator
GetsAnnotator(k) ==
    /\ is_match(ordered_file_list[k])
    /\ TimestampParses(Captures(ordered_file_list[k]))
    /\ from_file(FileOf(ContentOf(ordered_file_list[k])), big_endian).tag = "Ok"

WholeSecondsOf(k) ==
    F64AsU64(from_file(FileOf(ContentOf(ordered_file_list[k])), big_endian).meta.duration)

\* the sum of the whole-second durations of the annotated files among the
\* first k entries; `exact` is lost once the sum no longer fits u64
RECURSIVE DurationSum(_)
DurationSum(k) ==
    IF k = 0 THEN [value |-> 0, exact |-> TRUE]
    ELSE LET before == DurationSum(k - 1)
         IN  IF ~GetsAnnotator(k) THEN before
             ELSE [value |-> before.value + WholeSecondsOf(k),
                   exact |-> before.exact
                               /\ ~U64AddCarries(before.value, WholeSecondsOf(k))]

\* the running offset threaded through get_end_time() over the first k entries
RECURSIVE ChainedOffset(_)
ChainedOffset(k) ==
    IF k = 0 THEN 0
    ELSE IF ~GetsAnnotator(k) THEN ChainedOffset(k - 1)
    ELSE get_end_time(
             FileAnnotatorFrom(
                 from_file(FileOf(ContentOf(ordered_file_list[k])), big_endian),
                 ParsedTimestamp(Captures(ordered_file_list[k])),
                 ChainedOffset(k - 1), opt_add_sub_markers, opt_range)).value

\* C4: each annotator is built with the get_end_time() of the annotator before
\* it (0 for the first), which is the sum of the whole-second durations of
\* the files annotated before it; after a 10 s file at offset 0 the next
\* annotator starts at 10, and ends at 30 if its file lasts 20 s.
C4_OffsetsChain ==
    file_annotator.some
        => /\ file_annotator.file_start_time_in_seconds = ChainedOffset(file_idx - 1)
           /\ DurationSum(file_idx - 1).exact
           /\ file_annotator.file_start_time_in_seconds = DurationSum(file_idx - 1).value
           /\ (file_idx = 2 /\ GetsAnnotator(1) /\ WholeSecondsOf(1) = 10
                 => /\ file_annotator.file_start_time_in_seconds = 10
                    /\ (WholeSecondsOf(2) = 20
                          => get_end_time(file_annotator).value = 30))

C17_OffsetsContiguous ==
    opt_range
        => /\ (/\ pc = "labels"
                /\ ~TakeNext(file_annotator, remaining).item.some
                /\ Len(labels) > 0
                  => labels[Len(labels)].label.end_marker
                       = U64AsF32(get_end_time(file_annotator).value))
           /\ \A i \in 1..(Len(labels) - 1) :
                  labels[i].file # labels[i + 1].file
                      => labels[i].label.end_marker = labels[i + 1].label.start_marker

\* x <= y on f32 values
F32LessEq(x, y) == x.hi < y.hi \/ (x.hi = y.hi /\ x.lo <= y.lo)

\* how many of the labels pulled so far are of the file at position k
LabelsOfFile(k) == Cardinality({ i \in 1..Len(labels) : labels[i].file = k })

\* C19: the list is in ascending path order and is worked through one file at
\* a time: the lines written are the labels pulled, in the order pulled; no
\* label of an earlier file follows one of a later file; when the loop stands
\* between two files every file before has all its lines; and the start
\* offsets never decrease from one line to the next.
C19_SequentialInOrder ==
    /\ \A a, b \in 1..Len(ordered_file_list) :
           a < b => PathLess(ordered_file_list[a], ordered_file_list[b])
    /\ Len(label_file) = Len(labels)
    /\ \A i \in 1..Len(labels) :
           /\ label_file[i] = get_label_line(labels[i].label)
           /\ labels[i].file <= file_idx
           /\ (pc = "loop" => labels[i].file < file_idx)
    /\ (pc = "loop"
          => \A k \in 1..(file_idx - 1) :
                 LabelsOfFile(k) = IF GetsAnnotator(k) THEN ExpectedLabels ELSE 0)
    /\ \A i \in 1..(Len(labels) - 1) :
           /\ labels[i].file <= labels[i + 1].file
           /\ F32LessEq(labels[i].label.start_marker, labels[i + 1].label.start_marker)

(***************************************************************************)
(* Claims about WaveMetaReader::from_file, checked under SpecParse         *)
(***************************************************************************)
Called == p_result.tag # "none"

\* the bytes a file holds at header offset `from` (0-based), at most n of them
FieldAt(bytes, from, n) ==
    SubSeq(bytes, from + 1, IF from + n <= Len(bytes) THEN from + n ELSE Len(bytes))

\* the kind of the first tag of the layout that the file does not hold
FirstBadTag(bytes) ==
    IF FieldAt(bytes, 0, 4) # RIFF_TAG THEN "NotARiffFile"
    ELSE IF FieldAt(bytes, 8, 4) # WAVE_TAG THEN "NotAWaveFile"
    ELSE IF FieldAt(bytes, 12, 4) # FMT_TAG THEN "NoFormatChunk"
    ELSE IF FieldAt(bytes, 36, 4) # DATA_TAG THEN "NoDataChunk"
    ELSE "None"

ReadSizes(reads) == [i \in 1..Len(reads) |-> reads[i].want]
HeaderReadSizes == <<4, 4, 4, 4, 6, 2, 4, 6, 2, 4, 4>>

\* C6: a file whose first 4 bytes are not RIFF is refused with NotARiffFile,
\* and the 4-byte read of the RIFF tag is the only read made on it.
C6_NotRiffStopsAfterFirstRead ==
    (Called /\ p_file.exists /\ FieldAt(p_file.bytes, 0, 4) # RIFF_TAG)
        => /\ p_result.tag = "Err"
           /\ p_result.kind = "NotARiffFile"
           /\ ReadSizes(p_result.reads) = <<4>>

\* C6 witness: a whole 44-byte header, wrong only in its RIFF tag, was refused
C6_Witness ==
    /\ Called /\ p_file.exists /\ Len(p_file.bytes) = 44
    /\ FieldAt(p_file.bytes, 0, 4) # RIFF_TAG
    /\ FieldAt(p_file.bytes, 8, 4) = WAVE_TAG
    /\ FieldAt(p_file.bytes, 36, 4) = DATA_TAG
    /\ p_result.kind = "NotARiffFile"

\* C7: with RIFF, WAVE and 'fmt ' in place, anything but 'data' at the data
\* tag position is refused with NoDataChunk and no format info is produced.
C7_BadDataTagIsNoDataChunk ==
    (Called /\ p_file.exists
        /\ FieldAt(p_file.bytes, 0, 4) = RIFF_TAG
        /\ FieldAt(p_file.bytes, 8, 4) = WAVE_TAG
        /\ FieldAt(p_file.bytes, 12, 4) = FMT_TAG
        /\ FieldAt(p_file.bytes, 36, 4) # DATA_TAG)
        => /\ p_result.tag = "Err"
           /\ p_result.kind = "NoDataChunk"
           /\ p_result.meta = NoMeta

\* C7 witness: a whole header with a corrupted data tag and a data length
\* behind it was refused
C7_Witness ==
    /\ Called /\ Len(p_file.bytes) = 44
    /\ FieldAt(p_file.bytes, 36, 4) = Corrupted(DATA_TAG)
    /\ FieldAt(p_file.bytes, 40, 4) = LittleEndian32(176400)
    /\ p_result.kind = "NoDataChunk"

\* C8: the tags are checked in the order RIFF, WAVE, 'fmt ', 'data'; the error
\* is the kind of the first tag that mismatches, whatever follows it, the reads
\* made are a prefix of the header's field order, and no error is returned
\* when all four tags match.
C8_FirstMismatchDecides ==
    (Called /\ p_file.exists)
        => /\ (FirstBadTag(p_file.bytes) # "None"
                 => p_result.tag = "Err" /\ p_result.kind = FirstBadTag(p_file.bytes))
           /\ (FirstBadTag(p_file.bytes) = "None" => p_result.tag # "Err")
           /\ ReadSizes(p_result.reads)
                = SubSeq(HeaderReadSizes, 1, Len(p_result.reads))
           /\ Cardinality({"NotARiffFile", "NotAWaveFile", "NoFormatChunk",
                           "NoDataChunk"}) = 4

\* C8 witness: 'fmt ' and 'data' are both wrong and the error is NoFormatChunk
C8_Witness ==
    /\ Called /\ Len(p_file.bytes) = 44
    /\ FieldAt(p_file.bytes, 12, 4) # FMT_TAG
    /\ FieldAt(p_file.bytes, 36, 4) # DATA_TAG
    /\ p_result.kind = "NoFormatChunk"

\* C9: a parse succeeds only if every one of its reads filled its buffer, so a
\* header cut off before its last field never yields a WaveFormatInfo.
C9_NoSuccessOnShortRead ==
    (Called /\ p_result.tag = "Ok")
        => /\ \A i \in 1..Len(p_result.reads) :
                  p_result.reads[i].got = p_result.reads[i].want
           /\ Len(p_file.bytes) >= 44

\* C10: with all four tags in place, a channel count of 0, a bit depth below
\* 8 or a sample rate of 0 makes the parse return an error value.
C10_DegenerateFormatIsAnError ==
    (Called /\ p_file.exists /\ FirstBadTag(p_file.bytes) = "None"
        /\ \/ Transmute(FieldAt(p_file.bytes, 22, 2), big_endian) = 0
           \/ Transmute(FieldAt(p_file.bytes, 34, 2), big_endian) \div 8 = 0
           \/ Transmute(FieldAt(p_file.bytes, 24, 4), big_endian) = 0)
        => p_result.tag = "Err"

\* the numeric header fields as the WAVE format stores them: little-endian
HeaderChannels(bytes) == LittleEndianValue(FieldAt(bytes, 22, 2))
HeaderSampleRate(bytes) == LittleEndianValue(FieldAt(bytes, 24, 4))
HeaderBitsPerSample(bytes) == LittleEndianValue(FieldAt(bytes, 34, 2))
HeaderDataLength(bytes) == LittleEndianValue(FieldAt(bytes, 40, 4))

\* C11: a successful parse reports the header's fields, its sample count is
\* data_byte_length div (bits_per_sample div 8) div channel_count, its duration
\* is that count over the sample rate, and the header with 2 channels, 16 bits,
\* 44100 Hz and 176400 data bytes lasts exactly 1 second.
C11_SamplesAndDuration ==
    (Called /\ p_result.tag = "Ok")
        => LET b == p_file.bytes
               m == p_result.meta
           IN  /\ m.channels = HeaderChannels(b)
               /\ m.samples_per_second = HeaderSampleRate(b)
               /\ m.bits_per_sample = HeaderBitsPerSample(b)
               /\ m.data_block_size_in_byte = HeaderDataLength(b)
               /\ HeaderBitsPerSample(b) \div 8 > 0
               /\ HeaderChannels(b) > 0
               /\ m.number_of_samples
                    = (HeaderDataLength(b) \div (HeaderBitsPerSample(b) \div 8))
                        \div HeaderChannels(b)
               /\ m.duration = [num |-> m.number_of_samples,
                                den |-> HeaderSampleRate(b)]
               /\ (/\ HeaderChannels(b) = 2 /\ HeaderBitsPerSample(b) = 16
                    /\ HeaderSampleRate(b) = 44100 /\ HeaderDataLength(b) = 176400
                      => m.duration.den > 0 /\ m.duration.num = m.duration.den)

(***************************************************************************)
(* Claims about one FileAnnotator, checked under SpecAnnotator             *)
(***************************************************************************)
AnnotatorFields ==
    {"some", "file_duration_in_seconds", "slice_duration_in_seconds",
     "file_start_time_in_seconds", "file_base_time", "max_annotations",
     "next_annotation_idx", "last_start_time", "is_range"}

\* C12: FileAnnotator::from returns None exactly when from_file returned an
\* error (the open failure or one of the four format errors) and an annotator
\* exactly when it returned Ok.
C12_NoneExactlyOnParseFailure ==
    (Called /\ p_result.tag # "Panic")
        => /\ p_result.tag \in {"Ok", "Err"}
           /\ (p_result.tag = "Err"
                 <=> p_result.kind \in {"Io", "NotARiffFile", "NotAWaveFile",
                                        "NoFormatChunk", "NoDataChunk"})
           /\ (~file_annotator.some <=> p_result.tag = "Err")
           /\ (file_annotator.some <=> p_result.tag = "Ok")
           /\ (~file_annotator.some => pc = "done" /\ labels = <<>>)

\* C12 witness: a file without a format chunk gave no annotator
C12_Witness ==
    /\ Called /\ p_file.exists
    /\ p_result.kind = "NoFormatChunk"
    /\ ~file_annotator.some
    /\ pc = "done"

\* the number start + k * slice of two u64 values, written the way an f32 is:
\* hi * 2^64 + lo (lo is negative when the number is not hi * 2^64 or above)
ExactOffset(start, k, slice) ==
    [hi |-> (IF start < 0 THEN 1 ELSE 0) + k * (IF slice < 0 THEN 1 ELSE 0),
     lo |-> start + k * slice]

\* C13: in range mode the k-th label starts at file_start_time + (k-1) * slice
\* and ends at file_start_time + k * slice, so the first label starts at the
\* file's start offset and each label ends where the next one starts.
C13_RangeOffsets ==
    (file_annotator.some /\ file_annotator.is_range)
        => \A k \in 1..Len(labels) :
               /\ labels[k].label.start_marker
                    = ExactOffset(file_annotator.file_start_time_in_seconds, k - 1,
                                  file_annotator.slice_duration_in_seconds)
               /\ labels[k].label.end_marker
                    = ExactOffset(file_annotator.file_start_time_in_seconds, k,
                                  file_annotator.slice_duration_in_seconds)
               /\ (k < Len(labels)
                     => labels[k].label.end_marker = labels[k + 1].label.start_marker)

\* the calendar times the k-th label is about; file_base_time + slice * k is a
\* NaiveDateTime only while slice is below 2^63 (a i64 number of seconds)
SliceEndIsATime(fa, k) == fa.slice_duration_in_seconds >= 0

SliceStartIsATime(fa, k) ==
    fa.max_annotations = 1 \/ k = 1 \/ fa.slice_duration_in_seconds >= 0

SliceEndTime(fa, k) ==
    AddSeconds(fa.file_base_time, fa.slice_duration_in_seconds * k)

SliceStartTime(fa, k) ==
    IF fa.max_annotations > 1
    THEN AddSeconds(fa.file_base_time, fa.slice_duration_in_seconds * (k - 1))
    ELSE fa.file_base_time

\* C14: an annotator created with range_mode = false never moves its running
\* clock, gives every label the start offset and the end offset
\* file_start_time, and labels it with the slice start as DD.MM.YYYY HH:MM:SS.
C14_NoRangeMode ==
    (file_annotator.some /\ ~opt_range)
        => /\ ~file_annotator.is_range
           /\ \A k \in 1..Len(labels) :
                  /\ labels[k].label.start_marker = file_annotator.last_start_time
                  /\ labels[k].label.start_marker
                       = ExactOffset(file_annotator.file_start_time_in_seconds, 0, 0)
                  /\ labels[k].label.end_marker = labels[k].label.start_marker
                  /\ SliceStartIsATime(file_annotator, k)
                  /\ labels[k].label.used_label
                       = FormatDMYHMS(SliceStartTime(file_annotator, k))
                  /\ Len(labels[k].label.used_label) = 19

\* "00:00:00 - 00:00:10"
Text_000000_000010 ==
    <<48, 48, 58, 48, 48, 58, 48, 48, 32, 45, 32, 48, 48, 58, 48, 48, 58, 49, 48>>

\* C15: the k-th label is about the time from file_base_time + slice * (k-1)
\* (file_base_time itself when there is one label only) to file_base_time +
\* slice * k; one label of a 10 s slice at 2021-01-01T00:00:00 and offset 0
\* reads "00:00:00 - 00:00:10" with the offsets (0, 10).
C15_SliceCalendarTimes ==
    file_annotator.some
        => \A k \in 1..Len(labels) :
               /\ SliceStartIsATime(file_annotator, k)
               /\ IF file_annotator.is_range
                  THEN /\ SliceEndIsATime(file_annotator, k)
                       /\ labels[k].label.used_label
                            = FormatHMS(SliceStartTime(file_annotator, k))
                                \o <<32, 45, 32>>
                                \o FormatHMS(SliceEndTime(file_annotator, k))
                  ELSE labels[k].label.used_label
                         = FormatDMYHMS(SliceStartTime(file_annotator, k))
               /\ (/\ file_annotator.file_base_time
                         = [days |-> DaysFromCivil(2021, 1, 1), secs |-> 0]
                    /\ file_annotator.slice_duration_in_seconds = 10
                    /\ file_annotator.max_annotations = 1
                    /\ file_annotator.file_start_time_in_seconds = 0
                    /\ file_annotator.is_range
                      => /\ labels[k].label.used_label = Text_000000_000010
                         /\ labels[k].label.start_marker = [hi |-> 0, lo |-> 0]
                         /\ labels[k].label.end_marker = [hi |-> 0, lo |-> 10])

RECURSIVE CountByte(_, _)
CountByte(text, b) ==
    IF Len(text) = 0 THEN 0
    ELSE (IF text[1] = b THEN 1 ELSE 0) + CountByte(Tail(text), b)

\* the position of the n-th byte b of a text that has one
RECURSIVE NthByte(_, _, _)
NthByte(text, b, n) ==
    LET first == CHOOSE i \in 1..Len(text) :
                     text[i] = b /\ \A j \in 1..(i - 1) : text[j] # b
    IN  IF n = 1 THEN first
        ELSE first + NthByte(SubSeq(text, first + 1, Len(text)), b, n - 1)

\* a decimal numeral read modulo 100000007 (2^64 is 37556848 modulo it)
RECURSIVE DigitsMod(_)
DigitsMod(text) ==
    IF Len(text) = 0 THEN 0
    ELSE (DigitsMod(SubSeq(text, 1, Len(text) - 1)) * 10 + (text[Len(text)] - 48))
             % 100000007

\* text is the whole number x written without sign, without leading zeros,
\* with a point and exactly two decimals
IsTwoDecimalsOf(text, x) ==
    /\ Len(text) >= 4
    /\ text[Len(text) - 2] = 46
    /\ text[Len(text) - 1] = 48
    /\ text[Len(text)] = 48
    /\ LET whole == SubSeq(text, 1, Len(text) - 3)
       IN  /\ \A i \in 1..Len(whole) : IsDigit(whole[i])
           /\ (Len(whole) > 1 => whole[1] # 48)
           /\ (IF x.hi = 0 THEN Len(whole) <= 8 ELSE Len(whole) \in 20..21)
           /\ DigitsMod(whole) = (x.hi * 37556848 + x.lo) % 100000007

\* line is one line: start, tab, end, tab, text, newline
IsLabelLineOf(line, label) ==
    /\ Len(line) > 0
    /\ line[Len(line)] = 10
    /\ CountByte(line, 10) = 1
    /\ CountByte(line, 9) = 2
    /\ LET t1 == NthByte(line, 9, 1)
           t2 == NthByte(line, 9, 2)
       IN  /\ IsTwoDecimalsOf(SubSeq(line, 1, t1 - 1), label.start_marker)
           /\ IsTwoDecimalsOf(SubSeq(line, t1 + 1, t2 - 1), label.end_marker)
           /\ SubSeq(line, t2 + 1, Len(line) - 1) = label.used_label

\* C21: every label the driver pulls is written as exactly one line: the
\* start offset with two decimals, a tab, the end offset with two decimals, a
\* tab, the label text and a newline, in that order (the line written last is
\* the line of the label pulled last, so every line is covered when written).
C21_LabelLineFormat ==
    /\ Len(label_file) = Len(labels)
    /\ (Len(label_file) > 0
          => IsLabelLineOf(label_file[Len(label_file)], labels[Len(labels)].label))

\* C21 witness: the line "0.00<tab>10.00<tab>00:00:00 - 00:00:10<newline>"
C21_Witness ==
    /\ Len(label_file) > 0
    /\ label_file[1]
         = <<48, 46, 48, 48, 9, 49, 48, 46, 48, 48, 9>> \o Text_000000_000010 \o <<10>>

(***************************************************************************)
(* What a step of Iterator::next leaves alone (specification               *)
(* SpecAnnotator)                                                          *)
(***************************************************************************)
\* the fields an annotator receives at construction and no step assigns
ConstructionFields(fa) ==
    <<fa.file_duration_in_seconds, fa.slice_duration_in_seconds,
      fa.file_start_time_in_seconds, fa.file_base_time, fa.max_annotations,
      fa.is_range>>

\* C22: the duration, the slice length, the start offset, the base time and
\* the label count of an annotator are those of its construction in every
\* state, and no step of next changes them or the mode; a step changes the
\* index and the clock only.
C22_StepKeepsConstruction ==
    /\ [](file_annotator.some
            => /\ p_result.tag = "Ok"
               /\ file_annotator.file_duration_in_seconds
                    = F64AsU64(p_result.meta.duration)
               /\ file_annotator.slice_duration_in_seconds
                    = (IF opt_add_sub_markers
                       THEN F64DividedBy6AsU64(p_result.meta.duration)
                       ELSE F64AsU64(p_result.meta.duration))
               /\ file_annotator.file_start_time_in_seconds \in StartOffsets
               /\ file_annotator.file_base_time \in BaseTimes
               /\ file_annotator.max_annotations
                    = (IF opt_add_sub_markers THEN 6 ELSE 1))
    /\ [][(file_annotator.some /\ file_annotator'.some)
            => /\ ConstructionFields(file_annotator')
                    = ConstructionFields(file_annotator)
               /\ DOMAIN file_annotator' = DOMAIN file_annotator]_vars

\* C22 witness: three steps have moved the clock of a 20 s file from 10 to 19
\* and the index from 0 to 3
C22_Witness ==
    /\ pc = "labels"
    /\ file_annotator.some
    /\ file_annotator.next_annotation_idx = 3
    /\ file_annotator.file_start_time_in_seconds = 10
    /\ file_annotator.slice_duration_in_seconds = 3
    /\ file_annotator.last_start_time = [hi |-> 0, lo |-> 19]
    /\ Len(labels) = 3

\* C24: from a state in which the index has reached the label count, no
\* request changes the annotator or yields a label, however often it is asked.
C24_ExhaustedStaysExhausted ==
    [][(/\ file_annotator.some
        /\ file_annotator.next_annotation_idx >= file_annotator.max_annotations)
          => /\ file_annotator' = file_annotator
             /\ labels' = labels]_vars

\* C24 witness: None has been returned after the sixth label of six
C24_Witness ==
    /\ pc = "done"
    /\ file_annotator.some
    /\ file_annotator.max_annotations = 6
    /\ file_annotator.next_annotation_idx = 6
    /\ Len(labels) = 6

(***************************************************************************)
(* The size field of the header (specification SpecParse)                  *)
(***************************************************************************)
\* what bytes 5..8 of a header may hold: no size, the size of a header alone,
\* the largest size, and the two tags read before and after the field
SizeFields == {<<0, 0, 0, 0>>, <<36, 0, 0, 0>>, <<255, 255, 255, 255>>, RIFF_TAG, WAVE_TAG}

\* the file with its size field overwritten, as far as the file reaches
WithSizeField(file, field) ==
    [file EXCEPT !.bytes = [i \in 1..Len(file.bytes) |->
                               IF i \in 5..8 THEN field[i - 4] ELSE file.bytes[i]]]

\* C23: the size field is read (the second read asks for 4 bytes) and decides
\* nothing: a file parses to the same result, with the same reads, whatever
\* its bytes 5..8 hold.
C23_SizeFieldIgnored ==
    Called
      => /\ (Len(p_result.reads) >= 2 => p_result.reads[2].want = 4)
         /\ \A field \in SizeFields :
                from_file(WithSizeField(p_file, field), big_endian) = p_result

\* C23 witness: a header of 44 bytes that announces 176436 more bytes than it
\* has was parsed to 176400 data bytes
C23_Witness ==
    /\ Called
    /\ p_result.tag = "Ok"
    /\ Len(p_file.bytes) = 44
    /\ ~big_endian
    /\ LittleEndianValue(FieldAt(p_file.bytes, 4, 4)) = 176436
    /\ p_result.meta.data_block_size_in_byte = 176400

(***************************************************************************)
(* Lines per directory entry (batch driver, specification Spec)            *)
(***************************************************************************)
\* the entries the loop is through with: those before the current one, and
\* the current one when the run has stopped at it
LeftBehind(k) == k < file_idx \/ (k = file_idx /\ pc = "panicked")

\* what the entries left behind have written when each entry that matches the
\* pattern and parses writes get_max_labels() lines and every other none
LinesPerEntry ==
    /\ Len(label_file) = Len(labels)
    /\ \A k \in 1..Len(ordered_file_list) :
           /\ (~is_match(ordered_file_list[k]) => LabelsOfFile(k) = 0)
           /\ (LeftBehind(k)
                 => LabelsOfFile(k) = (IF GetsAnnotator(k) THEN ExpectedLabels ELSE 0))
    /\ (pc \in {"done", "panicked"}
          => Len(label_file)
               = ExpectedLabels
                   * Cardinality({ k \in 1..Len(ordered_file_list) :
                                     LeftBehind(k) /\ GetsAnnotator(k) }))

\* the step taken at an entry whose path does not match the pattern
SkipKeepsFileAndOffset ==
    (AtFile /\ ~is_match(CurrentPath))
        => (label_file' = label_file /\ file_start_time' = file_start_time)

\* C25: an entry whose path does not match the pattern writes no line and
\* leaves the running start offset alone; an entry that matches and parses
\* writes get_max_labels() lines (1, or 6 with sub-markers); and the lines
\* written are as many as the parsed entries account for.
C25_LinesPerEntry == []LinesPerEntry /\ [][SkipKeepsFileAndOffset]_vars

(***************************************************************************)
(* The record command: get_available_cards, is_valid_device_selection and  *)
(* the endless loop of run_command_record                                  *)
(***************************************************************************)
\* str::parse::<u8>() of the digits of a capture
ParsesAsU8(n) == n \in 0..255

\* device_list.insert(card_id, (card_id, device_id)) for each capture in turn:
\* a map from card to (card, device), a later line of a card replacing an
\* earlier one
RECURSIVE DeviceList(_)
DeviceList(captures) ==
    IF Len(captures) = 0
    THEN <<>>
    ELSE LET before == DeviceList(SubSeq(captures, 1, Len(captures) - 1))
             last == captures[Len(captures)]
         IN  [c \in DOMAIN before \cup {last.card} |->
                 IF c = last.card THEN <<last.card, last.device>> ELSE before[c]]

\* get_available_cards, given the tool: Err when `arecord -l` cannot be run
\* or lists nothing, a panic of parse().unwrap() on a number that is no u8
get_available_cards(tool) ==
    IF ~tool.lists
    THEN [tag |-> "Err", map |-> <<>>]
    ELSE IF \E i \in 1..Len(tool.listing) :
                ~ParsesAsU8(tool.listing[i].card) \/ ~ParsesAsU8(tool.listing[i].device)
    THEN [tag |-> "Panic", map |-> <<>>]
    ELSE IF DOMAIN DeviceList(tool.listing) = {}
    THEN [tag |-> "Err", map |-> <<>>]
    ELSE [tag |-> "Ok", map |-> DeviceList(tool.listing)]

is_valid_device_selection(devices, audio_card, audio_device) ==
    audio_card \in DOMAIN devices /\ devices[audio_card][2] = audio_device

\* lines 74-86: every configured device is a valid selection
SelectionIsValid ==
    \A k \in 1..Len(config_input) :
        is_valid_device_selection(available_audio_devices.map, config_input[k].card,
                                  config_input[k].device)

\* line 65
recording_duration == 60 * opt_duration

\* a join that does not wait for its thread
JoinReturns_AtOnce(thread) == TRUE

\* handle.join() returns when the closure of its thread has returned
JoinReturns(thread) == thread.state # "running"

\* the thread behind the first handle still to join
FirstHandleThread ==
    CHOOSE t \in threads : t.key = Head(handles) /\ t.round = round

MaxListed == 2
MaxInputs == 2
MaxRounds == 2

\* lines of `arecord -l`: card 0 with two devices, card 1, and a card number
\* that is no u8
ListedDevices ==
    {[card |-> 0, device |-> 0], [card |-> 0, device |-> 1],
     [card |-> 1, device |-> 0], [card |-> 256, device |-> 0]}

RECURSIVE SeqsUpTo(_, _)
SeqsUpTo(S, n) ==
    IF n = 0 THEN {<<>>}
    ELSE SeqsUpTo(S, n - 1)
           \cup { Append(q, x) : q \in { r \in SeqsUpTo(S, n - 1) : Len(r) = n - 1 },
                                 x \in S }

ConfiguredDevices ==
    {[card |-> 0, device |-> 0], [card |-> 0, device |-> 1], [card |-> 1, device |-> 0]}

\* lines 48-51
ToolUnavailable ==
    /\ rec_pc = "start"
    /\ ~arecord.available
    /\ rec_pc' = "returned"
    /\ UNCHANGED <<arecord, config_input, opt_duration, available_audio_devices, round,
                   threads, handles, failed_round>>
    /\ UNCHANGED <<build_vars, parse_vars, option_vars, annotate_vars, convert_vars>>

\* lines 54-57
NoInputConfigured ==
    /\ rec_pc = "start"
    /\ arecord.available
    /\ Len(config_input) < 1
    /\ rec_pc' = "returned"
    /\ UNCHANGED <<arecord, config_input, opt_duration, available_audio_devices, round,
                   threads, handles, failed_round>>
    /\ UNCHANGED <<build_vars, parse_vars, option_vars, annotate_vars, convert_vars>>

\* lines 60-62: an Err of get_available_cards is turned into a panic
GetCards ==
    /\ rec_pc = "start"
    /\ arecord.available
    /\ Len(config_input) >= 1
    /\ available_audio_devices' = get_available_cards(arecord)
    /\ rec_pc' = IF get_available_cards(arecord).tag = "Ok" THEN "check" ELSE "panicked"
    /\ UNCHANGED <<arecord, config_input, opt_duration, round, threads, handles,
                   failed_round>>
    /\ UNCHANGED <<build_vars, parse_vars, option_vars, annotate_vars, convert_vars>>

\* lines 74-86: a configured device the map does not hold
SelectionPanics ==
    /\ rec_pc = "check"
    /\ ~SelectionIsValid
    /\ rec_pc' = "panicked"
    /\ UNCHANGED <<arecord, config_input, opt_duration, available_audio_devices, round,
                   threads, handles, failed_round>>
    /\ UNCHANGED <<build_vars, parse_vars, option_vars, annotate_vars, convert_vars>>

\* lines 89-91
DurationPanics ==
    /\ rec_pc = "check"
    /\ SelectionIsValid
    /\ (recording_duration < 60 \/ recording_duration > 3600)
    /\ rec_pc' = "panicked"
    /\ UNCHANGED <<arecord, config_input, opt_duration, available_audio_devices, round,
                   threads, handles, failed_round>>
    /\ UNCHANGED <<build_vars, parse_vars, option_vars, annotate_vars, convert_vars>>

\* lines 94-101: the wait for the full minute, then the first turn of the loop
StartLoop ==
    /\ rec_pc = "check"
    /\ SelectionIsValid
    /\ ~(recording_duration < 60 \/ recording_duration > 3600)
    /\ rec_pc' = "spawn"
    /\ round' = 1
    /\ UNCHANGED <<arecord, config_input, opt_duration, available_audio_devices,
                   threads, handles, failed_round>>
    /\ UNCHANGED <<build_vars, parse_vars, option_vars, annotate_vars, convert_vars>>

\* lines 102-128: map(..).collect() spawns the thread of the next key and keeps
\* its handle; the threads spawned before it are already running
SpawnThread ==
    /\ rec_pc = "spawn"
    /\ round <= MaxRounds
    /\ threads' = threads \cup {[key |-> Len(handles) + 1, round |-> round,
                                 state |-> "running"]}
    /\ handles' = Append(handles, Len(handles) + 1)
    /\ rec_pc' = IF Len(handles) + 1 = Len(config_input) THEN "join" ELSE "spawn"
    /\ UNCHANGED <<arecord, config_input, opt_duration, available_audio_devices, round,
                   failed_round>>
    /\ UNCHANGED <<build_vars, parse_vars, option_vars, annotate_vars, convert_vars>>

\* lines 107-126: record_audio returns Some (the recorder exited with success)
\* or None, the closure logs it and returns
RecordingEnds ==
    /\ \E t \in threads, result \in {"some", "none"} :
           /\ t.state = "running"
           /\ threads' = (threads \ {t}) \cup {[t EXCEPT !.state = result]}
           /\ failed_round' = IF result = "none" /\ failed_round = 0 THEN t.round
                              ELSE failed_round
    /\ UNCHANGED <<arecord, config_input, opt_duration, rec_pc, available_audio_devices,
                   round, handles>>
    /\ UNCHANGED <<build_vars, parse_vars, option_vars, annotate_vars, convert_vars>>

\* lines 132-136: join the next handle; after the last one the next turn begins
JoinThread ==
    /\ rec_pc = "join"
    /\ handles # <<>>
    /\ JoinReturns(FirstHandleThread)
    /\ handles' = Tail(handles)
    /\ threads' = IF FirstHandleThread.state = "running" THEN threads
                  ELSE threads \ {FirstHandleThread}
    /\ IF Len(handles) = 1
       THEN rec_pc' = "spawn" /\ round' = round + 1
       ELSE UNCHANGED <<rec_pc, round>>
    /\ UNCHANGED <<arecord, config_input, opt_duration, available_audio_devices,
                   failed_round>>
    /\ UNCHANGED <<build_vars, parse_vars, option_vars, annotate_vars, convert_vars>>

\* nothing of the annotate command is running
AnnotateSideIdle ==
    /\ big_endian = FALSE
    /\ overflow_checks = FALSE
    /\ p_file = [exists |-> FALSE, bytes |-> <<>>]
    /\ p_result = NotCalled
    /\ dir = {}
    /\ opt_add_sub_markers = FALSE
    /\ opt_range = FALSE
    /\ AnnotateIdle

InitRecord ==
    /\ AnnotateSideIdle
    /\ ConvertIdle
    /\ arecord \in [available : BOOLEAN, lists : BOOLEAN,
                    listing : SeqsUpTo(ListedDevices, MaxListed)]
    /\ config_input \in SeqsUpTo(ConfiguredDevices, MaxInputs)
    /\ opt_duration \in {0, 1, 61}
    /\ rec_pc = "start"
    /\ available_audio_devices = [tag |-> "none", map |-> <<>>]
    /\ round = 0
    /\ threads = {}
    /\ handles = <<>>
    /\ failed_round = 0

NextRecord ==
    \/ ToolUnavailable
    \/ NoInputConfigured
    \/ GetCards
    \/ SelectionPanics
    \/ DurationPanics
    \/ StartLoop
    \/ SpawnThread
    \/ RecordingEnds
    \/ JoinThread

SpecRecord == InitRecord /\ [][NextRecord]_vars

(***************************************************************************)
(* Claims about the record command, checked under SpecRecord               *)
(***************************************************************************)
InLoop == rec_pc \in {"spawn", "join"}

\* the threads in being are of the current round, at most one per device, and
\* those whose handles wait to be joined; when all are spawned there is one per
\* configured device; and no thread is in being when a round begins
OneRoundAtATime ==
    InLoop
      => /\ \A t \in threads : t.round = round /\ t.key \in 1..Len(config_input)
         /\ \A t, u \in threads : t.key = u.key => t = u
         /\ (rec_pc = "spawn" => { t.key : t \in threads } = 1..Len(handles))
         /\ ((rec_pc = "join" /\ Len(handles) = Len(config_input))
               => { t.key : t \in threads } = 1..Len(config_input))
         /\ ((rec_pc = "spawn" /\ handles = <<>>) => threads = {})

\* the loop is never left, and the join of the last handle begins the next
\* round whatever the recordings of the round returned
LoopGoesOn ==
    InLoop
      => /\ rec_pc' \in {"spawn", "join"}
         /\ round' \in {round, round + 1}
         /\ ((rec_pc = "join" /\ Len(handles) = 1 /\ handles' # handles)
               => rec_pc' = "spawn" /\ round' = round + 1 /\ threads' = {})

\* C26: each round spawns one recording thread per configured device; all
\* threads of a round are joined before a thread of the next round is spawned,
\* so threads of two rounds never exist together; and a recording that failed
\* does not keep the next round from beginning.
C26_RoundsDoNotOverlap == []OneRoundAtATime /\ [][LoopGoesOn]_vars

\* C26 witness: in round 2 both threads are running, a recording of round 1
\* having failed
C26_Witness ==
    /\ round = 2
    /\ failed_round = 1
    /\ Len(config_input) = 2
    /\ Cardinality({ t \in threads : t.round = 2 /\ t.state = "running" }) = 2

\* C28: a map that get_available_cards returns is not empty, and it accepts
\* every (card, device) pair of the listing it was made from.
C28_ListedDevicesAreValid ==
    available_audio_devices.tag = "Ok"
      => /\ DOMAIN available_audio_devices.map # {}
         /\ \A i \in 1..Len(arecord.listing) :
                is_valid_device_selection(available_audio_devices.map,
                                          arecord.listing[i].card,
                                          arecord.listing[i].device)

(***************************************************************************)
(* convert_audio_file: the converter is waited for, the rm process that    *)
(* removes the .wav file is spawned and left to run on its own             *)
(***************************************************************************)
MaxPrefixes == 2
MaxConversions == 2

\* the file prefixes in the folder
Prefixes == 1..MaxPrefixes

\* a removal whenever the converter could be started
ShouldRemove_IfStarted(status) == status # "Err"

\* convert_status.is_ok() && convert_status.unwrap().success()
ShouldRemove(status) == status = "success"

\* lines 191-199: the call, up to the start of the converter
CallConvert ==
    /\ conv_pc = "ready"
    /\ conversions < MaxConversions
    /\ \E file_prefix \in Prefixes : conv_prefix' = file_prefix
    /\ convert_status' = "none"
    /\ conversions' = conversions + 1
    /\ conv_pc' = "status"
    /\ UNCHANGED <<wav_files, mp3_files, rm_processes, converted>>
    /\ UNCHANGED <<build_vars, parse_vars, option_vars, annotate_vars, record_vars>>

\* lines 199-214: .status() returns: the converter could not be started
\* ("Err"), or it has exited, with success or without; on success rm is
\* spawned, which itself may fail, and the function returns without waiting.
\* The converter does not succeed on a .wav file that is not there, and leaves
\* an .mp3 file when it succeeds and possibly when it fails.
ConverterReturns ==
    /\ conv_pc = "status"
    /\ \E status \in {"Err", "failure", "success"}, rm_spawned, mp3_left \in BOOLEAN :
           /\ status = "success" => conv_prefix \in wav_files /\ mp3_left
           /\ status = "Err" => ~mp3_left
           /\ convert_status' = status
           /\ mp3_files' = IF mp3_left THEN mp3_files \cup {conv_prefix} ELSE mp3_files
           /\ converted' = IF status = "success" THEN converted \cup {conv_prefix}
                           ELSE converted
           /\ rm_processes' = IF ShouldRemove(status) /\ rm_spawned
                              THEN rm_processes \cup {conv_prefix}
                              ELSE rm_processes
    /\ conv_pc' = "ready"
    /\ UNCHANGED <<wav_files, conv_prefix, conversions>>
    /\ UNCHANGED <<build_vars, parse_vars, option_vars, annotate_vars, record_vars>>

\* a spawned `rm -rf prefix.wav` runs, at any later time: the file is gone,
\* or rm fails and the file stays
RmRuns ==
    /\ \E target \in rm_processes, removed \in BOOLEAN :
           /\ rm_processes' = rm_processes \ {target}
           /\ wav_files' = IF removed THEN wav_files \ {target} ELSE wav_files
    /\ UNCHANGED <<mp3_files, conv_pc, conv_prefix, convert_status, converted,
                   conversions>>
    /\ UNCHANGED <<build_vars, parse_vars, option_vars, annotate_vars, record_vars>>

InitConvert ==
    /\ AnnotateSideIdle
    /\ RecordIdle
    /\ wav_files \in SUBSET Prefixes
    /\ mp3_files = {}
    /\ conv_pc = "ready"
    /\ conv_prefix = 0
    /\ convert_status = "none"
    /\ rm_processes = {}
    /\ converted = {}
    /\ conversions = 0

NextConvert ==
    \/ CallConvert
    \/ ConverterReturns
    \/ RmRuns

SpecConvert == InitConvert /\ [][NextConvert]_vars

(***************************************************************************)
(* Claims about convert_audio_file, checked under SpecConvert              *)
(***************************************************************************)
\* a removal is under way only for a file whose conversion has succeeded
RemovalOnlyAfterSuccess == \A target \in rm_processes : target \in converted

\* a step removes a .wav file only if a conversion of it has exited with
\* success before; it starts a removal only as the return of a conversion that
\* exited with success, and for its file; and the return of a conversion that
\* could not be started or failed removes nothing and starts no removal
RemovalStep ==
    /\ \A target \in wav_files \ wav_files' : target \in converted
    /\ \A target \in rm_processes' \ rm_processes :
           /\ conv_pc = "status"
           /\ convert_status' = "success"
           /\ target = conv_prefix
    /\ ((conv_pc = "status" /\ conv_pc' = "ready" /\ convert_status' # "success")
          => wav_files' = wav_files /\ rm_processes' = rm_processes)

\* C27: convert_audio_file removes the .wav file only after the converter has
\* exited with success; when the converter cannot be started or exits without
\* success, the call removes nothing.
C27_RemovalOnlyAfterSuccess == []RemovalOnlyAfterSuccess /\ [][RemovalStep]_vars

\* C27 witness: the .wav file of prefix 1 is gone after its conversion
\* succeeded, and that of prefix 2 is in place after its conversion failed
C27_Witness ==
    /\ 1 \in converted
    /\ 1 \in mp3_files
    /\ 1 \notin wav_files
    /\ conv_prefix = 2
    /\ conv_pc = "ready"
    /\ convert_status = "failure"
    /\ 2 \in wav_files
    /\ rm_processes = {}

====
